---- MODULE Spec2Model ----
(***************************************************************************)
(* Model of smaract/axis.py: the axis classes of the SmarAct ASCII client. *)
(* A call of an axis method is one atomic step (the code is synchronous    *)
(* and single threaded).  Strings are sequences of one-character strings,  *)
(* so that formatting ("%s%d", ",%d") and parsing (split, int, float) are  *)
(* computed and not assumed.                                               *)
(***************************************************************************)
EXTENDS Integers, Sequences, FiniteSets, TLC

\* ------------------------------------------------------------------------
\* Bounds of the model
\* ------------------------------------------------------------------------
NumAxes == 3
MaxLoop == 4
MaxCode == 1
MaxScript == 2
MaxWire == 2

\* ------------------------------------------------------------------------
\* Python values
\* ------------------------------------------------------------------------
PyNone == [t |-> "None"]
PyInt(n) == [t |-> "int", v |-> n]
PyFloat(n) == [t |-> "float", v |-> n]
PyStr(s) == [t |-> "str", v |-> s]
PyList(s) == [t |-> "list", v |-> s]
PyTuple(s) == [t |-> "tuple", v |-> s]
PySet(s) == [t |-> "set", v |-> s]

\* ------------------------------------------------------------------------
\* Strings
\* ------------------------------------------------------------------------
Digits == <<"0", "1", "2", "3", "4", "5", "6", "7", "8", "9">>

DigitSet == {Digits[i] : i \in 1..10}

DigitVal(c) == (CHOOSE i \in 1..10 : Digits[i] = c) - 1

RECURSIVE NatToStr(_)
NatToStr(n) == IF n < 10 THEN <<Digits[n + 1]>>
               ELSE NatToStr(n \div 10) \o <<Digits[(n % 10) + 1]>>

\* "%d" % n for an integer n
fmt_d(n) == IF n < 0 THEN <<"-">> \o NatToStr(-n) ELSE NatToStr(n)

\* "%s" % x : a str is copied; a tuple ('MN', n) is rendered by repr
fmt_s(x) ==
    IF x.t = "str" THEN x.v
    ELSE <<"(", "'">> \o x.v[1] \o <<"'", ",", " ">> \o fmt_d(x.v[2]) \o <<")">>

RECURSIVE join_pars(_)
\* "".join([",%d" % i for i in pars])
join_pars(pars) ==
    IF pars = <<>> THEN <<>>
    ELSE <<",">> \o fmt_d(Head(pars)) \o join_pars(Tail(pars))

RECURSIVE split(_, _)
\* s.split(sep): the list of the fields between the separators
split(s, sep) ==
    IF \A i \in 1..Len(s) : s[i] # sep THEN <<s>>
    ELSE LET k == CHOOSE i \in 1..Len(s) :
                      s[i] = sep /\ \A j \in 1..(i - 1) : s[j] # sep
         IN <<SubSeq(s, 1, k - 1)>> \o split(SubSeq(s, k + 1, Len(s)), sep)

RECURSIVE digits_val(_)
digits_val(s) == IF s = <<>> THEN 0
                 ELSE 10 * digits_val(SubSeq(s, 1, Len(s) - 1)) + DigitVal(s[Len(s)])

is_int_literal(s) ==
    LET body == IF s # <<>> /\ s[1] = "-" THEN Tail(s) ELSE s
    IN body # <<>> /\ \A i \in 1..Len(body) : body[i] \in DigitSet

\* value denoted by an integer literal
literal_val(s) == IF s[1] = "-" THEN 0 - digits_val(Tail(s)) ELSE digits_val(s)

\* int(s) and float(s) of a text field: [exc, ret]
py_int(s) == IF is_int_literal(s) THEN [exc |-> "none", ret |-> PyInt(literal_val(s))]
             ELSE [exc |-> "ValueError", ret |-> PyNone]

py_float(s) == IF is_int_literal(s) THEN [exc |-> "none", ret |-> PyFloat(literal_val(s))]
               ELSE [exc |-> "ValueError", ret |-> PyNone]

\* ------------------------------------------------------------------------
\* Range validators (constants.py).  Each raises on a value outside its
\* range and is a no-op otherwise; a list is checked element by element.
\* ------------------------------------------------------------------------
Ranges == [steps |-> <<-30000, 30000>>,
           amplitude |-> <<0, 4095>>,
           frequency |-> <<1, 18500>>,
           acceleration |-> <<0, 10000000>>,
           velocity |-> <<0, 100000000>>,
           angle |-> <<0, 359999999>>,
           angle_relative |-> <<-359999999, 359999999>>,
           revolution |-> <<-32768, 32767>>,
           force |-> <<-32768, 32767>>,
           speed |-> <<1, 255000000>>,
           opening |-> <<0, 4095>>,
           opening_relative |-> <<-4095, 4095>>,
           target |-> <<0, 4095>>,
           target_relative |-> <<-4095, 4095>>,
           scan_speed |-> <<1, 4095000>>,
           hold_time |-> <<0, 60000>>,
           row |-> <<0, 255>>]

in_range(q, v) == Ranges[q][1] <= v /\ v <= Ranges[q][2]

\* is_<q>_in_range(v): "none" when accepted, the raised exception otherwise
is_in_range(q, v) == IF in_range(q, v) THEN "none" ELSE "ValidationError"

\* the validator applied to a list of values, as in the angle_limits setter
is_list_in_range(q, vs) ==
    IF \A i \in 1..Len(vs) : in_range(q, vs[i]) THEN "none" ELSE "ValidationError"

\* values around the two ends of a range, used as the arguments of the calls
Edge(q) == {Ranges[q][1] - 1, Ranges[q][1], Ranges[q][2] + 1}

\* ------------------------------------------------------------------------
\* The controller (external collaborator): send_cmd(command) -> reply.
\* It keeps the values a client can set and read back, and a script of
\* error-status answers (code, remaining) of which the last one repeats.
\* ------------------------------------------------------------------------
\* the index of the first digit or sign of a field (its length + 1 if none)
first_numeric(field) ==
    IF \E i \in 1..Len(field) : field[i] \in DigitSet \cup {"-"}
    THEN CHOOSE i \in 1..Len(field) :
             field[i] \in DigitSet \cup {"-"}
             /\ \A j \in 1..(i - 1) : field[j] \notin DigitSet \cup {"-"}
    ELSE Len(field) + 1

ack(ax) == <<"E">> \o ax \o <<",", "0">>

\* the answer to the command with mnemonic mn, axis text ax and fields f
ctrl_answer(c, mn, ax, f) ==
    CASE mn = <<"G", "E", "S">> ->
           [ctrl |-> [c EXCEPT !.errq = IF Len(@) > 1 THEN Tail(@) ELSE @],
            reply |-> mn \o ax \o <<",">> \o fmt_d(c.errq[1][1])
                         \o <<",">> \o fmt_d(c.errq[1][2])]
      [] mn = <<"S", "C", "L", "A">> /\ Len(f) = 2 /\ is_int_literal(f[2]) ->
           [ctrl |-> [c EXCEPT !.acc = literal_val(f[2])], reply |-> ack(ax)]
      [] mn = <<"S", "C", "L", "S">> /\ Len(f) = 2 /\ is_int_literal(f[2]) ->
           [ctrl |-> [c EXCEPT !.vel = literal_val(f[2])], reply |-> ack(ax)]
      [] mn = <<"G", "C", "L", "A">> ->
           [ctrl |-> c, reply |-> mn \o ax \o <<",">> \o fmt_d(c.acc)]
      [] mn = <<"G", "C", "L", "S">> ->
           [ctrl |-> c, reply |-> mn \o ax \o <<",">> \o fmt_d(c.vel)]
      [] mn = <<"G", "F", "P">> /\ Len(f) = 2 /\ f[2] = <<"2", "5", "5">> ->
           [ctrl |-> c, reply |-> mn \o ax \o <<",">> \o fmt_d(c.nperm)]
      [] mn # <<>> /\ mn[1] = "G" /\ mn \notin {<<"G", "E", "S">>, <<"G", "C", "L", "A">>, <<"G", "C", "L", "S">>}
           /\ ~(mn = <<"G", "F", "P">> /\ Len(f) = 2 /\ f[2] = <<"2", "5", "5">>) ->
           [ctrl |-> c, reply |-> mn \o ax \o <<",", "1">>]
      [] OTHER -> [ctrl |-> c, reply |-> ack(ax)]

ctrl_dispatch(c, f, k) ==
    ctrl_answer(c, SubSeq(f[1], 1, k - 1), SubSeq(f[1], k, Len(f[1])), f)

ctrl_fields(c, f) == ctrl_dispatch(c, f, first_numeric(f[1]))

ctrl_send_cmd(c, cmd) == ctrl_fields(c, split(cmd, ","))

\* ------------------------------------------------------------------------
\* SmaractBaseAxis
\* ------------------------------------------------------------------------
\* The state of one call: the controller, the commands _send_cmd has built
\* and the commands the controller's send_cmd has received.
Machine(c) == [ctrl |-> c, built |-> <<>>, sent |-> <<>>]

Raise(m, e) == [m |-> m, exc |-> e, ret |-> PyNone]

Return(m, v) == [m |-> m, exc |-> "none", ret |-> v]

\* the attributes of the weakref.ref object stored by __init__
ReferenceTypeAttrs == {"__call__", "__callback__"}

\* self._ctrl.<name>: attribute lookup on the weakref.ref object itself
ref_getattr(name) == IF name \in ReferenceTypeAttrs THEN "none" ELSE "AttributeError"

_send_cmd(m, nr, str_cmd, pars) ==
    LET cmd == fmt_s(str_cmd) \o fmt_d(nr) \o join_pars(pars)
        m1 == [m EXCEPT !.built = Append(@, cmd)]
    IN IF ref_getattr("send_cmd") # "none"
       THEN [m |-> m1, exc |-> ref_getattr("send_cmd"), ans |-> <<>>]
       ELSE LET r == ctrl_send_cmd(m.ctrl, cmd)
            IN [m |-> [m1 EXCEPT !.ctrl = r.ctrl, !.sent = Append(@, cmd)],
                exc |-> "none", ans |-> r.reply]

\* the first exception of a sequence of validator outcomes
RECURSIVE first_exc(_)
first_exc(es) == IF es = <<>> THEN "none"
                 ELSE IF Head(es) # "none" THEN Head(es) ELSE first_exc(Tail(es))

\* lst[i] for a Python index i (negative counts from the end)
py_index(lst, i) ==
    LET k == IF i < 0 THEN Len(lst) + i + 1 ELSE i + 1
    IN IF k >= 1 /\ k <= Len(lst) THEN [exc |-> "none", ret |-> lst[k]]
       ELSE [exc |-> "IndexError", ret |-> <<>>]

\* lst[i:] for a Python index i
py_slice_from(lst, i) ==
    LET k == IF i < 0 THEN (IF Len(lst) + i < 0 THEN 0 ELSE Len(lst) + i) ELSE i
    IN IF k >= Len(lst) THEN <<>> ELSE SubSeq(lst, k + 1, Len(lst))

\* conv(lst[i]) for conv in {int, float}
conv_field(conv, lst, i) ==
    LET x == py_index(lst, i)
    IN IF x.exc # "none" THEN [exc |-> x.exc, ret |-> PyNone]
       ELSE IF conv = "int" THEN py_int(x.ret) ELSE py_float(x.ret)

\* [conv(x) for x in lst]
conv_list(conv, lst) ==
    IF \E i \in 1..Len(lst) : ~is_int_literal(lst[i])
    THEN [exc |-> "ValueError", ret |-> PyNone]
    ELSE [exc |-> "none",
          ret |-> PyList([i \in 1..Len(lst) |->
                     IF conv = "int" THEN PyInt(literal_val(lst[i]))
                     ELSE PyFloat(literal_val(lst[i]))])]

\* the rest of a handler after its _send_cmd: p is the outcome of the parse
After(r, p) == IF r.exc # "none" THEN Raise(r.m, r.exc)
               ELSE [m |-> r.m, exc |-> p.exc, ret |-> p.ret]

safe_direction(m, nr) ==
    LET r == _send_cmd(m, nr, PyStr(<<"G", "S", "D">>), <<>>)
        c == py_index(r.ans, -1)
    IN After(r, IF c.exc # "none" THEN [exc |-> c.exc, ret |-> PyNone]
                ELSE py_int(<<c.ret>>))

safe_direction_setter(m, nr, direction) ==
    After(_send_cmd(m, nr, PyStr(<<"S", "S", "D">>), <<direction>>), Return(m, PyNone))

sensor_type(m, nr) ==
    LET r == _send_cmd(m, nr, PyStr(<<"G", "S", "T">>), <<>>)
        f == split(r.ans, ",")
        code == IF Len(f) < 2 THEN [exc |-> "IndexError", ret |-> PyNone]
                ELSE py_int(f[Len(f)])
    IN After(r, IF code.exc # "none" THEN code
                ELSE [exc |-> ref_getattr("SENSOR_CODE"), ret |-> PyNone])

position(m, nr) ==
    LET r == _send_cmd(m, nr, PyStr(<<"G", "P">>), <<>>)
    IN After(r, conv_field("float", split(r.ans, ","), 1))

status(m, nr) ==
    LET r == _send_cmd(m, nr, PyStr(<<"G", "S">>), <<>>)
    IN After(r, conv_field("int", split(r.ans, ","), 1))

calibrate_sensor(m, nr) ==
    After(_send_cmd(m, nr, PyStr(<<"C", "S">>), <<>>), Return(m, PyNone))

find_reference_mark(m, nr, direction, hold_time, auto_zero) ==
    After(_send_cmd(m, nr, PyStr(<<"F", "R", "M">>), <<direction, hold_time, auto_zero>>),
          Return(m, PyNone))

\* move_step without the amplitude check
move_step_unchecked(m, nr, steps, amplitude, frequency) ==
    LET e == first_exc(<<is_in_range("steps", steps),
                         is_in_range("frequency", frequency)>>)
    IN IF e # "none" THEN Raise(m, e)
       ELSE After(_send_cmd(m, nr, PyStr(<<"M", "S", "T">>), <<steps, amplitude, frequency>>),
                  Return(m, PyNone))

move_step(m, nr, steps, amplitude, frequency) ==
    LET e == first_exc(<<is_in_range("steps", steps),
                         is_in_range("amplitude", amplitude),
                         is_in_range("frequency", frequency)>>)
    IN IF e # "none" THEN Raise(m, e)
       ELSE After(_send_cmd(m, nr, PyStr(<<"M", "S", "T">>), <<steps, amplitude, frequency>>),
                  Return(m, PyNone))

stop(m, nr) ==
    After(_send_cmd(m, nr, PyStr(<<"S">>), <<>>), Return(m, PyNone))

\* ------------------------------------------------------------------------
\* SmaractSDCAxis
\* ------------------------------------------------------------------------
target_position(m, nr) ==
    LET r == _send_cmd(m, nr, PyStr(<<"G", "T", "P">>), <<>>)
    IN After(r, conv_field("float", split(r.ans, ","), 1))

\* ans.split(',')[1, 2]: a list indexed by a tuple
list_index_by_tuple(lst) == [exc |-> "TypeError", ret |-> PyNone]

error_status(m, nr) ==
    LET r == _send_cmd(m, nr, PyStr(<<"G", "E", "S">>), <<>>)
    IN After(r, list_index_by_tuple(split(r.ans, ",")))

\* err, rem = <value>: unpacking of the value error_status returned
unpack2(v) == IF v.t \in {"list", "tuple"} /\ Len(v.v) = 2 THEN "none"
              ELSE IF v.t \in {"list", "tuple"} THEN "ValueError"
              ELSE "TypeError"

RECURSIVE error_queue_loop(_, _, _, _, _)
\* while rem != 0: err, rem = self.error_status; err_list.append(err)
\* ("Diverges" stands for a loop that is still running after MaxLoop turns)
error_queue_loop(m, nr, err_list, rem, fuel) ==
    IF rem.t \in {"int", "float"} /\ rem.v = 0 THEN Return(m, PyList(err_list))
    ELSE IF fuel = 0 THEN Raise(m, "Diverges")
    ELSE LET r == error_status(m, nr)
         IN IF r.exc # "none" THEN Raise(r.m, r.exc)
            ELSE IF unpack2(r.ret) # "none" THEN Raise(r.m, unpack2(r.ret))
            ELSE error_queue_loop(r.m, nr, Append(err_list, r.ret.v[1]),
                                  r.ret.v[2], fuel - 1)

error_queue(m, nr) ==
    LET r == error_status(m, nr)
    IN IF r.exc # "none" THEN Raise(r.m, r.exc)
       ELSE IF unpack2(r.ret) # "none" THEN Raise(r.m, unpack2(r.ret))
       ELSE error_queue_loop(r.m, nr, <<r.ret.v[1]>>, r.ret.v[2], MaxLoop)

get_table_entry(m, nr, table, row) ==
    IF is_in_range("row", row) # "none" THEN Raise(m, is_in_range("row", row))
    ELSE LET r == _send_cmd(m, nr, PyStr(<<"G", "T", "E">>), <<table, row>>)
         IN After(r, conv_field("float", split(r.ans, ","), -1))

set_table_entry(m, nr, table, row, value) ==
    IF is_in_range("row", row) # "none" THEN Raise(m, is_in_range("row", row))
    ELSE After(_send_cmd(m, nr, PyStr(<<"S", "T", "E">>), <<table, row, value>>),
               Return(m, PyNone))

\* ------------------------------------------------------------------------
\* SmaractMCSBaseAxis
\* ------------------------------------------------------------------------
channel_type(m, nr) ==
    LET r == _send_cmd(m, nr, PyStr(<<"G", "C", "T">>), <<>>)
    IN After(r, conv_field("float", split(r.ans, ","), 1))

closed_loop_acc(m, nr) ==
    LET r == _send_cmd(m, nr, PyStr(<<"G", "C", "L", "A">>), <<>>)
    IN After(r, conv_field("float", split(r.ans, ","), 1))

closed_loop_acc_setter(m, nr, acceleration) ==
    IF is_in_range("acceleration", acceleration) # "none"
    THEN Raise(m, is_in_range("acceleration", acceleration))
    ELSE After(_send_cmd(m, nr, PyTuple(<<<<"S", "C", "L", "A">>, acceleration>>), <<>>),
               Return(m, PyNone))

closed_loop_vel(m, nr) ==
    LET r == _send_cmd(m, nr, PyStr(<<"G", "C", "L", "S">>), <<>>)
    IN After(r, conv_field("float", split(r.ans, ","), 1))

closed_loop_vel_setter(m, nr, velocity) ==
    IF is_in_range("velocity", velocity) # "none"
    THEN Raise(m, is_in_range("velocity", velocity))
    ELSE After(_send_cmd(m, nr, PyTuple(<<<<"S", "C", "L", "S">>, velocity>>), <<>>),
               Return(m, PyNone))

scale(m, nr) ==
    LET r == _send_cmd(m, nr, PyStr(<<"G", "S", "C">>), <<>>)
    IN After(r, conv_list("float", py_slice_from(split(r.ans, ","), -2)))

\* type(list): the type of the builtin class list
type_of_list == "type"

\* a type check that lets every argument through
type_check_passes(values) == "none"

\* if type(list) not in [tuple, list]: raise ValueError
type_check(values) ==
    IF type_of_list \notin {"tuple", "list"} THEN "ValueError" ELSE "none"

\* a, b, ... = values with n targets
unpack(values, n) ==
    IF values.t \notin {"list", "tuple", "set"} THEN "TypeError"
    ELSE IF Len(values.v) # n THEN "ValueError"
    ELSE "none"

scale_setter(m, nr, values) ==
    LET e == first_exc(<<type_check(values), unpack(values, 2)>>)
    IN IF e # "none" THEN Raise(m, e)
       ELSE After(_send_cmd(m, nr, PyStr(<<"S", "S", "C">>), <<values.v[1], values.v[2]>>),
                  Return(m, PyNone))

sensor_type_setter(m, nr, sensor_type_code) ==
    After(_send_cmd(m, nr, PyStr(<<"S", "S", "T">>), <<sensor_type_code>>), Return(m, PyNone))

force(m, nr) ==
    LET r == _send_cmd(m, nr, PyStr(<<"G", "F">>), <<>>)
    IN After(r, conv_field("float", split(r.ans, ","), -1))

gripper_opening(m, nr) ==
    LET r == _send_cmd(m, nr, PyStr(<<"G", "G", "O">>), <<>>)
    IN After(r, conv_field("float", split(r.ans, ","), -1))

physical_position_known(m, nr) ==
    LET r == _send_cmd(m, nr, PyStr(<<"G", "P", "P", "K">>), <<>>)
    IN After(r, conv_field("int", split(r.ans, ","), 1))

voltage_level(m, nr) ==
    LET r == _send_cmd(m, nr, PyStr(<<"G", "V", "L">>), <<>>)
    IN After(r, conv_field("float", split(r.ans, ","), -1))

serial_number(m, nr) ==
    LET r == _send_cmd(m, nr, PyStr(<<"G", "S", "N">>), <<>>)
    IN After(r, Return(m, PyStr(r.ans)))

firmware_version(m, nr) ==
    LET r == _send_cmd(m, nr, PyStr(<<"G", "F", "V">>), <<>>)
        f == py_slice_from(split(r.ans, ","), 1)
    IN After(r, Return(m, PyList([i \in 1..Len(f) |-> PyStr(f[i])])))

get_capture_buffer(m, nr, buffer_idx) ==
    LET r == _send_cmd(m, nr, PyStr(<<"G", "B">>), <<buffer_idx>>)
    IN After(r, conv_list("float", py_slice_from(split(r.ans, ","), 2)))

\* byte_idx <= n_feat_perm_bytes with an int on the left and a str on the
\* right (Python 3)
int_le_str(i, s) == [exc |-> "TypeError", ret |-> FALSE]

\* bin(x) of a str x
bin_of_str(x) == [exc |-> "TypeError", ret |-> PyNone]

get_feature_permissions(m, nr, byte_idx) ==
    LET r1 == _send_cmd(m, nr, PyStr(<<"G", "F", "P">>), <<255>>)
        n_feat_perm_bytes == py_index(split(r1.ans, ","), -1)
        le == int_le_str(byte_idx, n_feat_perm_bytes.ret)
    IN IF r1.exc # "none" THEN Raise(r1.m, r1.exc)
       ELSE IF le.exc # "none" THEN Raise(r1.m, le.exc)
       ELSE IF le.ret
            THEN LET r2 == _send_cmd(r1.m, nr, PyStr(<<"F", "P">>), <<byte_idx>>)
                 IN After(r2, bin_of_str(py_index(split(r2.ans, ","), -1).ret))
            ELSE Return(r1.m, PyInt(-1))

get_channel_property(m, nr, key) ==
    LET r == _send_cmd(m, nr, PyStr(<<"G", "C", "L", "S">>), <<key>>)
    IN After(r, conv_field("int", split(r.ans, ","), -1))

get_end_effector_type(m, nr) ==
    LET r == _send_cmd(m, nr, PyStr(<<"G", "E", "E", "T">>), <<>>)
    IN After(r, conv_list("int", py_slice_from(split(r.ans, ","), -3)))

set_accumulate_rel_pos(m, nr, enable) ==
    After(_send_cmd(m, nr, PyStr(<<"S", "A", "R", "P">>), <<enable>>), Return(m, PyNone))

set_closed_loop_max_freq(m, nr, frequency) ==
    LET e == first_exc(<<is_in_range("frequency", frequency)>>)
    IN IF e # "none" THEN Raise(m, e)
       ELSE After(_send_cmd(m, nr, PyStr(<<"S", "C", "L", "F">>), <<frequency>>),
                  Return(m, PyNone))

set_channel_property(m, nr, key, value) ==
    After(_send_cmd(m, nr, PyStr(<<"S", "C", "P">>), <<key, value>>), Return(m, PyNone))

set_end_effector_type(m, nr, eff_type, p1, p2) ==
    After(_send_cmd(m, nr, PyStr(<<"S", "E", "E", "T">>), <<eff_type, p1, p2>>), Return(m, PyNone))

set_position(m, nr, pos) ==
    After(_send_cmd(m, nr, PyStr(<<"S", "P">>), <<pos>>), Return(m, PyNone))

set_report_on_complete(m, nr, enable) ==
    After(_send_cmd(m, nr, PyStr(<<"S", "R", "C">>), <<enable>>), Return(m, PyNone))

set_report_on_triggered(m, nr, enable) ==
    After(_send_cmd(m, nr, PyStr(<<"S", "R", "T">>), <<enable>>), Return(m, PyNone))

set_step_while_scan(m, nr, enable) ==
    After(_send_cmd(m, nr, PyStr(<<"S", "S", "W">>), <<enable>>), Return(m, PyNone))

set_zero_force(m, nr) ==
    After(_send_cmd(m, nr, PyStr(<<"S", "Z", "F">>), <<>>), Return(m, PyNone))

append_triggered_command(m, nr, trigger_source) ==
    After(_send_cmd(m, nr, PyStr(<<"A", "T", "C">>), <<trigger_source>>), Return(m, PyNone))

clean_triggered_command_queue(m, nr) ==
    After(_send_cmd(m, nr, PyStr(<<"C", "T", "C", "Q">>), <<>>), Return(m, PyNone))

move_gripper_force_absolute(m, nr, frc, speed, hold_time) ==
    LET e == first_exc(<<is_in_range("force", frc),
                         is_in_range("speed", speed),
                         is_in_range("hold_time", hold_time)>>)
    IN IF e # "none" THEN Raise(m, e)
       ELSE After(_send_cmd(m, nr, PyStr(<<"M", "G", "F", "A">>), <<frc, speed, hold_time>>),
                  Return(m, PyNone))

move_gripper_opening_absolute(m, nr, opening, speed) ==
    LET e == first_exc(<<is_in_range("opening", opening),
                         is_in_range("speed", speed)>>)
    IN IF e # "none" THEN Raise(m, e)
       ELSE After(_send_cmd(m, nr, PyStr(<<"M", "G", "O", "A">>), <<opening, speed>>),
                  Return(m, PyNone))

move_gripper_opening_relative(m, nr, opening, speed) ==
    LET e == first_exc(<<is_in_range("opening_relative", opening),
                         is_in_range("speed", speed)>>)
    IN IF e # "none" THEN Raise(m, e)
       ELSE After(_send_cmd(m, nr, PyStr(<<"M", "G", "O", "A">>), <<opening, speed>>),
                  Return(m, PyNone))

move_scan_absolute(m, nr, target, scan_speed) ==
    LET e == first_exc(<<is_in_range("target", target),
                         is_in_range("scan_speed", scan_speed)>>)
    IN IF e # "none" THEN Raise(m, e)
       ELSE After(_send_cmd(m, nr, PyStr(<<"M", "S", "C", "A">>), <<target, scan_speed>>),
                  Return(m, PyNone))

move_scan_relative(m, nr, target, scan_speed) ==
    LET e == first_exc(<<is_in_range("target_relative", target),
                         is_in_range("scan_speed", scan_speed)>>)
    IN IF e # "none" THEN Raise(m, e)
       ELSE After(_send_cmd(m, nr, PyStr(<<"M", "S", "C", "R">>), <<target, scan_speed>>),
                  Return(m, PyNone))

\* ------------------------------------------------------------------------
\* SmaractMCSAngularAxis
\* ------------------------------------------------------------------------
angle_limits(m, nr) ==
    LET r == _send_cmd(m, nr, PyStr(<<"G", "A", "L">>), <<>>)
    IN After(r, conv_list("float", py_slice_from(split(r.ans, ","), -4)))

angle_limits_setter(m, nr, limits) ==
    LET e == first_exc(<<type_check(limits), unpack(limits, 4)>>)
        v == IF e # "none" THEN "none"
             ELSE first_exc(<<is_list_in_range("angle", <<limits.v[1], limits.v[3]>>),
                              is_list_in_range("revolution", <<limits.v[2], limits.v[4]>>)>>)
    IN IF e # "none" THEN Raise(m, e)
       ELSE IF v # "none" THEN Raise(m, v)
       ELSE After(_send_cmd(m, nr, PyStr(<<"S", "A", "L">>),
                            <<limits.v[1], limits.v[2], limits.v[3], limits.v[4]>>),
                  Return(m, PyNone))

angle(m, nr) ==
    LET r == _send_cmd(m, nr, PyStr(<<"G", "A">>), <<>>)
    IN After(r, conv_list("float", py_slice_from(split(r.ans, ","), -2)))

move_angle_absolute(m, nr, ang, rev, hold_time) ==
    LET e == first_exc(<<is_in_range("angle", ang),
                         is_in_range("revolution", rev),
                         is_in_range("hold_time", hold_time)>>)
    IN IF e # "none" THEN Raise(m, e)
       ELSE After(_send_cmd(m, nr, PyStr(<<"M", "A", "A">>), <<ang, rev, hold_time>>),
                  Return(m, PyNone))

move_angle_relative(m, nr, ang, rev, hold_time) ==
    LET e == first_exc(<<is_in_range("angle_relative", ang),
                         is_in_range("revolution", rev),
                         is_in_range("hold_time", hold_time)>>)
    IN IF e # "none" THEN Raise(m, e)
       ELSE After(_send_cmd(m, nr, PyStr(<<"M", "A", "R">>), <<ang, rev, hold_time>>),
                  Return(m, PyNone))

\* ------------------------------------------------------------------------
\* SmaractMCSLinearAxis
\* ------------------------------------------------------------------------
position_limits(m, nr) ==
    LET r == _send_cmd(m, nr, PyStr(<<"G", "P", "L">>), <<>>)
    IN After(r, conv_list("float", py_slice_from(split(r.ans, ","), -2)))

position_limits_setter(m, nr, limits) ==
    LET e == first_exc(<<type_check(limits), unpack(limits, 2)>>)
    IN IF e # "none" THEN Raise(m, e)
       ELSE After(_send_cmd(m, nr, PyStr(<<"S", "P", "L">>), <<limits.v[1], limits.v[2]>>),
                  Return(m, PyNone))

move_position_absolute(m, nr, pos, hold_time) ==
    LET e == first_exc(<<is_in_range("hold_time", hold_time)>>)
    IN IF e # "none" THEN Raise(m, e)
       ELSE After(_send_cmd(m, nr, PyStr(<<"M", "P", "A">>), <<pos, hold_time>>),
                  Return(m, PyNone))

move_position_relative(m, nr, pos, hold_time) ==
    LET e == first_exc(<<is_in_range("hold_time", hold_time)>>)
    IN IF e # "none" THEN Raise(m, e)
       ELSE After(_send_cmd(m, nr, PyStr(<<"M", "P", "R">>), <<pos, hold_time>>),
                  Return(m, PyNone))

\* ------------------------------------------------------------------------
\* State
\* ------------------------------------------------------------------------
VARIABLES axis_nr,      \* axis object -> its _axis_nr
          ctrl_alive,   \* the controller object still exists
          ctrl,         \* the controller's state
          wire,         \* every command the controller's send_cmd received
          last          \* the last call: method, arguments and outcome

vars == <<axis_nr, ctrl_alive, ctrl, wire, last>>

AxisIds == 1..NumAxes

\* the class of each axis object
axis_cls(a) == CASE a % 3 = 1 -> "SmaractSDCAxis"
                 [] a % 3 = 2 -> "SmaractMCSAngularAxis"
                 [] OTHER -> "SmaractMCSLinearAxis"

SDCAxes == {a \in AxisIds : axis_cls(a) = "SmaractSDCAxis"}
MCSAxes == {a \in AxisIds : axis_cls(a) # "SmaractSDCAxis"}
AngularAxes == {a \in AxisIds : axis_cls(a) = "SmaractMCSAngularAxis"}
LinearAxes == {a \in AxisIds : axis_cls(a) = "SmaractMCSLinearAxis"}

\* error-status scripts: n answers counting the remaining errors down to 0,
\* or one answer that never reports 0
ErrScripts ==
    {[i \in 1..n |-> <<c, n - i>>] : n \in 1..MaxScript, c \in 0..MaxCode}
    \cup {<<<<c, 1>>>> : c \in 0..MaxCode}
    \cup {<<<<5, 2>>, <<7, 1>>, <<9, 0>>>>}

CtrlStates == {[errq |-> q, acc |-> 0, vel |-> 0, nperm |-> 1] : q \in ErrScripts}

Flag == {0, 1}

\* arguments of the compound setters
Values2 == {PyInt(1), PyList(<<0, 1>>), PyTuple(<<1, 0>>), PySet(<<0, 1>>),
            PyList(<<1>>)}
Values4 == {PyInt(1), PyList(<<0, 0, 1, 1>>), PyTuple(<<0, 0, 360000000, 0>>),
            PySet(<<0, 1, 2, 3>>), PyList(<<0, 40000, 1, 1>>)}

NoCall == [op |-> "none", axis |-> 0, nr |-> 0, args |-> <<>>, alive |-> TRUE,
           pre |-> [errq |-> <<>>, acc |-> 0, vel |-> 0, nperm |-> 0],
           exc |-> "none", ret |-> PyNone, built |-> <<>>, sent |-> <<>>]

\* __init__ of every axis: _axis_nr = axis_nr, _ctrl = weakref.ref(ctrl)
Init ==
    /\ axis_nr = [a \in AxisIds |-> a]
    /\ ctrl_alive = TRUE
    /\ ctrl \in CtrlStates
    /\ wire = <<>>
    /\ last = NoCall

\* one call of method op on axis a with outcome R
Invoke(op, a, args, R) ==
    /\ Len(wire) < MaxWire
    /\ last' = [op |-> op, axis |-> a, nr |-> axis_nr[a], args |-> args,
                alive |-> ctrl_alive, pre |-> ctrl, exc |-> R.exc,
                ret |-> R.ret, built |-> R.m.built, sent |-> R.m.sent]
    /\ ctrl' = R.m.ctrl
    /\ wire' = wire \o R.m.sent
    /\ UNCHANGED <<axis_nr, ctrl_alive>>

\* the last strong reference to the controller goes away
Release ==
    /\ ctrl_alive
    /\ ctrl_alive' = FALSE
    /\ UNCHANGED <<axis_nr, ctrl, wire, last>>

\* ------------------------------------------------------------------------
\* One action per method of the axis classes
\* ------------------------------------------------------------------------
Call_safe_direction ==
    \E a \in AxisIds :
        Invoke("safe_direction", a, <<>>,
               safe_direction(Machine(ctrl), axis_nr[a]))

Call_safe_direction_setter ==
    \E a \in AxisIds, direction \in Flag :
        Invoke("safe_direction.setter", a, <<direction>>,
               safe_direction_setter(Machine(ctrl), axis_nr[a], direction))

Call_sensor_type ==
    \E a \in AxisIds :
        Invoke("sensor_type", a, <<>>,
               sensor_type(Machine(ctrl), axis_nr[a]))

Call_position ==
    \E a \in AxisIds :
        Invoke("position", a, <<>>,
               position(Machine(ctrl), axis_nr[a]))

Call_status ==
    \E a \in AxisIds :
        Invoke("status", a, <<>>,
               status(Machine(ctrl), axis_nr[a]))

Call_calibrate_sensor ==
    \E a \in AxisIds :
        Invoke("calibrate_sensor", a, <<>>,
               calibrate_sensor(Machine(ctrl), axis_nr[a]))

Call_find_reference_mark ==
    \E a \in AxisIds, direction \in Flag, hold_time \in {0}, auto_zero \in Flag :
        Invoke("find_reference_mark", a, <<direction, hold_time, auto_zero>>,
               find_reference_mark(Machine(ctrl), axis_nr[a], direction, hold_time, auto_zero))

Call_move_step ==
    \E a \in AxisIds, steps \in Edge("steps"), amplitude \in Edge("amplitude"), frequency \in Edge("frequency") :
        Invoke("move_step", a, <<steps, amplitude, frequency>>,
               move_step(Machine(ctrl), axis_nr[a], steps, amplitude, frequency))

Call_stop ==
    \E a \in AxisIds :
        Invoke("stop", a, <<>>,
               stop(Machine(ctrl), axis_nr[a]))

Call_target_position ==
    \E a \in SDCAxes :
        Invoke("target_position", a, <<>>,
               target_position(Machine(ctrl), axis_nr[a]))

Call_error_status ==
    \E a \in SDCAxes :
        Invoke("error_status", a, <<>>,
               error_status(Machine(ctrl), axis_nr[a]))

Call_error_queue ==
    \E a \in SDCAxes :
        Invoke("error_queue", a, <<>>,
               error_queue(Machine(ctrl), axis_nr[a]))

Call_get_table_entry ==
    \E a \in SDCAxes, table \in 0..2, row \in Edge("row") :
        Invoke("get_table_entry", a, <<table, row>>,
               get_table_entry(Machine(ctrl), axis_nr[a], table, row))

Call_set_table_entry ==
    \E a \in SDCAxes, table \in 0..2, row \in Edge("row"), value \in Flag :
        Invoke("set_table_entry", a, <<table, row, value>>,
               set_table_entry(Machine(ctrl), axis_nr[a], table, row, value))

Call_channel_type ==
    \E a \in MCSAxes :
        Invoke("channel_type", a, <<>>,
               channel_type(Machine(ctrl), axis_nr[a]))

Call_closed_loop_acc ==
    \E a \in MCSAxes :
        Invoke("closed_loop_acc", a, <<>>,
               closed_loop_acc(Machine(ctrl), axis_nr[a]))

Call_closed_loop_acc_setter ==
    \E a \in MCSAxes, acceleration \in Edge("acceleration") \cup {5} :
        Invoke("closed_loop_acc.setter", a, <<acceleration>>,
               closed_loop_acc_setter(Machine(ctrl), axis_nr[a], acceleration))

Call_closed_loop_vel ==
    \E a \in MCSAxes :
        Invoke("closed_loop_vel", a, <<>>,
               closed_loop_vel(Machine(ctrl), axis_nr[a]))

Call_closed_loop_vel_setter ==
    \E a \in MCSAxes, velocity \in Edge("velocity") \cup {5} :
        Invoke("closed_loop_vel.setter", a, <<velocity>>,
               closed_loop_vel_setter(Machine(ctrl), axis_nr[a], velocity))

Call_scale ==
    \E a \in MCSAxes :
        Invoke("scale", a, <<>>,
               scale(Machine(ctrl), axis_nr[a]))

Call_scale_setter ==
    \E a \in MCSAxes, values \in Values2 :
        Invoke("scale.setter", a, <<values>>,
               scale_setter(Machine(ctrl), axis_nr[a], values))

Call_sensor_type_setter ==
    \E a \in MCSAxes, sensor_type_code \in Flag :
        Invoke("sensor_type.setter", a, <<sensor_type_code>>,
               sensor_type_setter(Machine(ctrl), axis_nr[a], sensor_type_code))

Call_force ==
    \E a \in MCSAxes :
        Invoke("force", a, <<>>,
               force(Machine(ctrl), axis_nr[a]))

Call_gripper_opening ==
    \E a \in MCSAxes :
        Invoke("gripper_opening", a, <<>>,
               gripper_opening(Machine(ctrl), axis_nr[a]))

Call_physical_position_known ==
    \E a \in MCSAxes :
        Invoke("physical_position_known", a, <<>>,
               physical_position_known(Machine(ctrl), axis_nr[a]))

Call_voltage_level ==
    \E a \in MCSAxes :
        Invoke("voltage_level", a, <<>>,
               voltage_level(Machine(ctrl), axis_nr[a]))

Call_serial_number ==
    \E a \in MCSAxes :
        Invoke("serial_number", a, <<>>,
               serial_number(Machine(ctrl), axis_nr[a]))

Call_firmware_version ==
    \E a \in MCSAxes :
        Invoke("firmware_version", a, <<>>,
               firmware_version(Machine(ctrl), axis_nr[a]))

Call_get_capture_buffer ==
    \E a \in MCSAxes, buffer_idx \in Flag :
        Invoke("get_capture_buffer", a, <<buffer_idx>>,
               get_capture_buffer(Machine(ctrl), axis_nr[a], buffer_idx))

Call_get_feature_permissions ==
    \E a \in MCSAxes, byte_idx \in 0..2 :
        Invoke("get_feature_permissions", a, <<byte_idx>>,
               get_feature_permissions(Machine(ctrl), axis_nr[a], byte_idx))

Call_get_channel_property ==
    \E a \in MCSAxes, key \in Flag :
        Invoke("get_channel_property", a, <<key>>,
               get_channel_property(Machine(ctrl), axis_nr[a], key))

Call_get_end_effector_type ==
    \E a \in MCSAxes :
        Invoke("get_end_effector_type", a, <<>>,
               get_end_effector_type(Machine(ctrl), axis_nr[a]))

Call_set_accumulate_rel_pos ==
    \E a \in MCSAxes, enable \in Flag :
        Invoke("set_accumulate_rel_pos", a, <<enable>>,
               set_accumulate_rel_pos(Machine(ctrl), axis_nr[a], enable))

Call_set_closed_loop_max_freq ==
    \E a \in MCSAxes, frequency \in Edge("frequency") :
        Invoke("set_closed_loop_max_freq", a, <<frequency>>,
               set_closed_loop_max_freq(Machine(ctrl), axis_nr[a], frequency))

Call_set_channel_property ==
    \E a \in MCSAxes, key \in Flag, value \in Flag :
        Invoke("set_channel_property", a, <<key, value>>,
               set_channel_property(Machine(ctrl), axis_nr[a], key, value))

Call_set_end_effector_type ==
    \E a \in MCSAxes, eff_type \in Flag, p1 \in {0}, p2 \in {0} :
        Invoke("set_end_effector_type", a, <<eff_type, p1, p2>>,
               set_end_effector_type(Machine(ctrl), axis_nr[a], eff_type, p1, p2))

Call_set_position ==
    \E a \in MCSAxes, pos \in {-1, 0, 1000} :
        Invoke("set_position", a, <<pos>>,
               set_position(Machine(ctrl), axis_nr[a], pos))

Call_set_report_on_complete ==
    \E a \in MCSAxes, enable \in Flag :
        Invoke("set_report_on_complete", a, <<enable>>,
               set_report_on_complete(Machine(ctrl), axis_nr[a], enable))

Call_set_report_on_triggered ==
    \E a \in MCSAxes, enable \in Flag :
        Invoke("set_report_on_triggered", a, <<enable>>,
               set_report_on_triggered(Machine(ctrl), axis_nr[a], enable))

Call_set_step_while_scan ==
    \E a \in MCSAxes, enable \in Flag :
        Invoke("set_step_while_scan", a, <<enable>>,
               set_step_while_scan(Machine(ctrl), axis_nr[a], enable))

Call_set_zero_force ==
    \E a \in MCSAxes :
        Invoke("set_zero_force", a, <<>>,
               set_zero_force(Machine(ctrl), axis_nr[a]))

Call_append_triggered_command ==
    \E a \in MCSAxes, trigger_source \in Flag :
        Invoke("append_triggered_command", a, <<trigger_source>>,
               append_triggered_command(Machine(ctrl), axis_nr[a], trigger_source))

Call_clean_triggered_command_queue ==
    \E a \in MCSAxes :
        Invoke("clean_triggered_command_queue", a, <<>>,
               clean_triggered_command_queue(Machine(ctrl), axis_nr[a]))

Call_move_gripper_force_absolute ==
    \E a \in MCSAxes, frc \in Edge("force"), speed \in Edge("speed"), hold_time \in Edge("hold_time") :
        Invoke("move_gripper_force_absolute", a, <<frc, speed, hold_time>>,
               move_gripper_force_absolute(Machine(ctrl), axis_nr[a], frc, speed, hold_time))

Call_move_gripper_opening_absolute ==
    \E a \in MCSAxes, opening \in Edge("opening"), speed \in Edge("speed") :
        Invoke("move_gripper_opening_absolute", a, <<opening, speed>>,
               move_gripper_opening_absolute(Machine(ctrl), axis_nr[a], opening, speed))

Call_move_gripper_opening_relative ==
    \E a \in MCSAxes, opening \in Edge("opening_relative"), speed \in Edge("speed") :
        Invoke("move_gripper_opening_relative", a, <<opening, speed>>,
               move_gripper_opening_relative(Machine(ctrl), axis_nr[a], opening, speed))

Call_move_scan_absolute ==
    \E a \in MCSAxes, target \in Edge("target"), scan_speed \in Edge("scan_speed") :
        Invoke("move_scan_absolute", a, <<target, scan_speed>>,
               move_scan_absolute(Machine(ctrl), axis_nr[a], target, scan_speed))

Call_move_scan_relative ==
    \E a \in MCSAxes, target \in Edge("target_relative"), scan_speed \in Edge("scan_speed") :
        Invoke("move_scan_relative", a, <<target, scan_speed>>,
               move_scan_relative(Machine(ctrl), axis_nr[a], target, scan_speed))

Call_angle_limits ==
    \E a \in AngularAxes :
        Invoke("angle_limits", a, <<>>,
               angle_limits(Machine(ctrl), axis_nr[a]))

Call_angle_limits_setter ==
    \E a \in AngularAxes, limits \in Values4 :
        Invoke("angle_limits.setter", a, <<limits>>,
               angle_limits_setter(Machine(ctrl), axis_nr[a], limits))

Call_angle ==
    \E a \in AngularAxes :
        Invoke("angle", a, <<>>,
               angle(Machine(ctrl), axis_nr[a]))

Call_move_angle_absolute ==
    \E a \in AngularAxes, ang \in Edge("angle"), rev \in Edge("revolution"), hold_time \in Edge("hold_time") :
        Invoke("move_angle_absolute", a, <<ang, rev, hold_time>>,
               move_angle_absolute(Machine(ctrl), axis_nr[a], ang, rev, hold_time))

Call_move_angle_relative ==
    \E a \in AngularAxes, ang \in Edge("angle_relative"), rev \in Edge("revolution"), hold_time \in Edge("hold_time") :
        Invoke("move_angle_relative", a, <<ang, rev, hold_time>>,
               move_angle_relative(Machine(ctrl), axis_nr[a], ang, rev, hold_time))

Call_position_limits ==
    \E a \in LinearAxes :
        Invoke("position_limits", a, <<>>,
               position_limits(Machine(ctrl), axis_nr[a]))

Call_position_limits_setter ==
    \E a \in LinearAxes, limits \in Values2 :
        Invoke("position_limits.setter", a, <<limits>>,
               position_limits_setter(Machine(ctrl), axis_nr[a], limits))

Call_move_position_absolute ==
    \E a \in LinearAxes, pos \in {-1, 1000}, hold_time \in Edge("hold_time") \cup {50} :
        Invoke("move_position_absolute", a, <<pos, hold_time>>,
               move_position_absolute(Machine(ctrl), axis_nr[a], pos, hold_time))

Call_move_position_relative ==
    \E a \in LinearAxes, pos \in {-1, 1000}, hold_time \in Edge("hold_time") :
        Invoke("move_position_relative", a, <<pos, hold_time>>,
               move_position_relative(Machine(ctrl), axis_nr[a], pos, hold_time))

Next ==
    \/ Call_safe_direction
    \/ Call_safe_direction_setter
    \/ Call_sensor_type
    \/ Call_position
    \/ Call_status
    \/ Call_calibrate_sensor
    \/ Call_find_reference_mark
    \/ Call_move_step
    \/ Call_stop
    \/ Call_target_position
    \/ Call_error_status
    \/ Call_error_queue
    \/ Call_get_table_entry
    \/ Call_set_table_entry
    \/ Call_channel_type
    \/ Call_closed_loop_acc
    \/ Call_closed_loop_acc_setter
    \/ Call_closed_loop_vel
    \/ Call_closed_loop_vel_setter
    \/ Call_scale
    \/ Call_scale_setter
    \/ Call_sensor_type_setter
    \/ Call_force
    \/ Call_gripper_opening
    \/ Call_physical_position_known
    \/ Call_voltage_level
    \/ Call_serial_number
    \/ Call_firmware_version
    \/ Call_get_capture_buffer
    \/ Call_get_feature_permissions
    \/ Call_get_channel_property
    \/ Call_get_end_effector_type
    \/ Call_set_accumulate_rel_pos
    \/ Call_set_closed_loop_max_freq
    \/ Call_set_channel_property
    \/ Call_set_end_effector_type
    \/ Call_set_position
    \/ Call_set_report_on_complete
    \/ Call_set_report_on_triggered
    \/ Call_set_step_while_scan
    \/ Call_set_zero_force
    \/ Call_append_triggered_command
    \/ Call_clean_triggered_command_queue
    \/ Call_move_gripper_force_absolute
    \/ Call_move_gripper_opening_absolute
    \/ Call_move_gripper_opening_relative
    \/ Call_move_scan_absolute
    \/ Call_move_scan_relative
    \/ Call_angle_limits
    \/ Call_angle_limits_setter
    \/ Call_angle
    \/ Call_move_angle_absolute
    \/ Call_move_angle_relative
    \/ Call_position_limits
    \/ Call_position_limits_setter
    \/ Call_move_position_absolute
    \/ Call_move_position_relative
    \/ Release

Spec == Init /\ [][Next]_vars

\* ------------------------------------------------------------------------
\* Properties
\* ------------------------------------------------------------------------
Called == last.op # "none"

\* a range validator of the method rejects one of the arguments x
Rejects(op, x) ==
    CASE op = "move_step" ->
           ~in_range("steps", x[1]) \/ ~in_range("amplitude", x[2])
           \/ ~in_range("frequency", x[3])
      [] op \in {"get_table_entry", "set_table_entry"} -> ~in_range("row", x[2])
      [] op = "closed_loop_acc.setter" -> ~in_range("acceleration", x[1])
      [] op = "closed_loop_vel.setter" -> ~in_range("velocity", x[1])
      [] op = "set_closed_loop_max_freq" -> ~in_range("frequency", x[1])
      [] op = "move_gripper_force_absolute" ->
           ~in_range("force", x[1]) \/ ~in_range("speed", x[2])
           \/ ~in_range("hold_time", x[3])
      [] op = "move_gripper_opening_absolute" ->
           ~in_range("opening", x[1]) \/ ~in_range("speed", x[2])
      [] op = "move_gripper_opening_relative" ->
           ~in_range("opening_relative", x[1]) \/ ~in_range("speed", x[2])
      [] op = "move_scan_absolute" ->
           ~in_range("target", x[1]) \/ ~in_range("scan_speed", x[2])
      [] op = "move_scan_relative" ->
           ~in_range("target_relative", x[1]) \/ ~in_range("scan_speed", x[2])
      [] op = "move_angle_absolute" ->
           ~in_range("angle", x[1]) \/ ~in_range("revolution", x[2])
           \/ ~in_range("hold_time", x[3])
      [] op = "move_angle_relative" ->
           ~in_range("angle_relative", x[1]) \/ ~in_range("revolution", x[2])
           \/ ~in_range("hold_time", x[3])
      [] op = "angle_limits.setter" ->
           /\ x[1].t \in {"list", "tuple"}
           /\ Len(x[1].v) = 4
           /\ \/ ~in_range("angle", x[1].v[1]) \/ ~in_range("angle", x[1].v[3])
              \/ ~in_range("revolution", x[1].v[2])
              \/ ~in_range("revolution", x[1].v[4])
      [] op \in {"move_position_absolute", "move_position_relative"} ->
           ~in_range("hold_time", x[2])
      [] OTHER -> FALSE

\* the text "<mnemonic><axis index>,<p1>,...,<pn>"
RECURSIVE Params(_)
Params(ps) == IF ps = <<>> THEN <<>>
              ELSE <<",">> \o fmt_d(Head(ps)) \o Params(Tail(ps))

Encoded(mn, nr, ps) == mn \o fmt_d(nr) \o Params(ps)

\* the answers of the error-status script up to the first remaining-count 0
\* (0 when no answer of the script reports 0)
FirstZero(q) == IF \E i \in 1..Len(q) : q[i][2] = 0
                THEN CHOOSE i \in 1..Len(q) :
                         q[i][2] = 0 /\ \A j \in 1..(i - 1) : q[j][2] # 0
                ELSE 0

\* C1: when a range validator rejects an argument of a validating method,
\* the call raises and no command is handed to _send_cmd, so none reaches
\* the controller's send_cmd.
C1_RejectedNeverSent ==
    (Called /\ Rejects(last.op, last.args))
        => (last.exc # "none" /\ last.built = <<>> /\ last.sent = <<>>)

C1_Witness ==
    /\ last.op = "move_step"
    /\ last.args = <<-30000, 4096, 1>>
    /\ last.exc = "ValidationError"
    /\ last.built = <<>>

\* C2: on an axis whose controller is alive, _send_cmd delivers exactly
\* "<mnemonic><axis index>" followed by ",<param>" per parameter to the
\* controller's send_cmd and returns the controller's reply unchanged.
C2_SendCmdDelivers ==
    /\ (last.alive /\ last.op = "stop")
           => last.sent = <<Encoded(<<"S">>, last.nr, <<>>)>>
    /\ (last.alive /\ last.op = "move_position_absolute"
           /\ ~Rejects(last.op, last.args))
           => last.sent = <<Encoded(<<"M", "P", "A">>, last.nr, last.args)>>
    /\ (last.alive /\ last.op = "serial_number")
           => (last.exc = "none" /\ last.ret.t = "str"
               /\ last.ret.v = ctrl_send_cmd(last.pre, Encoded(<<"G", "S", "N">>, last.nr, <<>>)).reply)

\* C3: error_queue on a controller that answers (code_1, rem_1), ...,
\* (code_n, rem_n), rem_n the first 0, returns [code_1, ..., code_n] after
\* exactly n round trips.
C3_ErrorQueueCollects ==
    (last.op = "error_queue" /\ last.alive /\ FirstZero(last.pre.errq) > 0)
        => LET n == FirstZero(last.pre.errq)
           IN /\ last.exc = "none"
              /\ last.ret.t = "list"
              /\ Len(last.ret.v) = n
              /\ \A i \in 1..n : last.ret.v[i] = PyInt(last.pre.errq[i][1])
              /\ Len(last.sent) = n

\* C4: error_status performs one GES round trip and returns the pair
\* (error_code, remaining_count) of the last two fields of the reply.
C4_ErrorStatusPair ==
    (last.op = "error_status" /\ last.alive)
        => /\ last.exc = "none"
           /\ last.sent = <<Encoded(<<"G", "E", "S">>, last.nr, <<>>)>>
           /\ last.ret.t \in {"list", "tuple"}
           /\ last.ret.v = <<PyInt(last.pre.errq[1][1]), PyInt(last.pre.errq[1][2])>>

\* C5: get_feature_permissions(byte_idx) with byte_idx above the count the
\* controller reports returns -1, does not raise, and sends only the count
\* query.
C5_OutOfRangeSentinel ==
    (last.op = "get_feature_permissions" /\ last.alive
        /\ last.args[1] > last.pre.nperm)
        => /\ last.exc = "none"
           /\ last.ret = PyInt(-1)
           /\ last.sent = <<Encoded(<<"G", "F", "P">>, last.nr, <<255>>)>>

\* C6: a call that delegates to the controller raises a reference error
\* when the controller has been released, and when the controller is alive
\* it does not raise that error and the command reaches send_cmd.
C6_ReferenceError ==
    /\ (Called /\ ~last.alive /\ last.built # <<>>) => last.exc = "ReferenceError"
    /\ (Called /\ last.alive /\ last.built # <<>>)
           => (last.exc \notin {"ReferenceError", "AttributeError"}
               /\ last.sent # <<>>)

\* C7: with a controller that stores the value set and echoes it, setting
\* closed_loop_acc (closed_loop_vel) to an in-range value and then reading
\* it returns that value.
C7_RoundTrip ==
    [][ \A q \in {"acc", "vel"} :
          LET setter == IF q = "acc" THEN "closed_loop_acc.setter"
                        ELSE "closed_loop_vel.setter"
              getter == IF q = "acc" THEN "closed_loop_acc" ELSE "closed_loop_vel"
          IN (/\ last.op = setter
              /\ ~Rejects(setter, last.args)
              /\ last.alive
              /\ last'.op = getter
              /\ last'.axis = last.axis
              /\ last'.alive)
                 => (last'.exc = "none" /\ last'.ret.v = last.args[1]) ]_vars

\* a call whose arguments pass the checks its method makes before sending
Accepted ==
    /\ Called
    /\ ~Rejects(last.op, last.args)
    /\ last.op \in {"scale.setter", "position_limits.setter"}
           => (last.args[1].t \in {"list", "tuple"} /\ Len(last.args[1].v) = 2)
    /\ last.op = "angle_limits.setter"
           => (last.args[1].t \in {"list", "tuple"} /\ Len(last.args[1].v) = 4)

\* C8: every call other than error_queue that passes validation makes
\* exactly one send_cmd invocation.
C8_ExactlyOneSend ==
    (Accepted /\ last.alive /\ last.op # "error_queue") => Len(last.sent) = 1

\* C9: the scale setter rejects an argument that is not a sequence with a
\* type/validation error, and hands no command to _send_cmd.
C9_ScaleRejectsNonSequence ==
    (last.op = "scale.setter" /\ last.args[1].t \notin {"list", "tuple"})
        => /\ last.exc \in {"ValueError", "TypeError"}
           /\ last.built = <<>>
           /\ last.sent = <<>>

C9_Witness ==
    /\ last.op = "scale.setter"
    /\ last.args = <<PyInt(1)>>
    /\ last.exc = "ValueError"
    /\ last.alive

\* C10: error_queue returns right after the first answer with remaining
\* count 0, and keeps querying without end when no answer reports 0.
C10_ErrorQueueTermination ==
    (last.op = "error_queue" /\ last.alive)
        => IF FirstZero(last.pre.errq) > 0
           THEN last.exc = "none" /\ Len(last.sent) = FirstZero(last.pre.errq)
           ELSE last.exc = "Diverges"

\* a list or tuple of n elements
WellFormed(v, n) == v.t \in {"list", "tuple"} /\ Len(v.v) = n

\* C11: given a list or tuple of the right arity whose elements pass the
\* range validators, each compound setter sends exactly one command (SSC,
\* SAL, SPL) that carries the elements in the given order.
C11_CompoundSettersSend ==
    /\ (last.op = "scale.setter" /\ last.alive /\ WellFormed(last.args[1], 2))
           => (last.exc = "none"
               /\ last.sent = <<Encoded(<<"S", "S", "C">>, last.nr, last.args[1].v)>>)
    /\ (last.op = "angle_limits.setter" /\ last.alive
           /\ WellFormed(last.args[1], 4) /\ ~Rejects(last.op, last.args))
           => (last.exc = "none"
               /\ last.sent = <<Encoded(<<"S", "A", "L">>, last.nr, last.args[1].v)>>)
    /\ (last.op = "position_limits.setter" /\ last.alive
           /\ WellFormed(last.args[1], 2))
           => (last.exc = "none"
               /\ last.sent = <<Encoded(<<"S", "P", "L">>, last.nr, last.args[1].v)>>)

\* C12: get_feature_permissions first sends the count query (index 255);
\* if and only if byte_idx is within the count reported, it sends exactly
\* one further feature-permission query carrying byte_idx and returns the
\* value of the last field of that reply; it never sends more than two
\* commands, and never the per-byte query before the count query.
C12_FeaturePermissionProtocol ==
    (last.op = "get_feature_permissions" /\ last.alive)
        => /\ Len(last.sent) \in {1, 2}
           /\ last.sent[1] = Encoded(<<"G", "F", "P">>, last.nr, <<255>>)
           /\ (Len(last.sent) = 2) <=> (last.args[1] <= last.pre.nperm)
           /\ Len(last.sent) = 2
                  => /\ last.sent[2] = Encoded(<<"G", "F", "P">>, last.nr, <<last.args[1]>>)
                     /\ last.exc = "none"

\* the text of a command in front of its axis index
IssuedMnemonic(cmd) == SubSeq(cmd, 1, first_numeric(cmd) - 1)

\* C13: two different methods called on the same axis never issue a command
\* under the same mnemonic (error_queue issues none of its own: it reads
\* error_status).
C13_DistinctMnemonics ==
    [][ (/\ last.built # <<>>
         /\ last'.built # <<>>
         /\ "error_queue" \notin {last.op, last'.op}
         /\ last'.axis = last.axis
         /\ last'.op # last.op)
            => \A i \in 1..Len(last.built), j \in 1..Len(last'.built) :
                   IssuedMnemonic(last.built[i]) # IssuedMnemonic(last'.built[j]) ]_vars

UpperCase == {"A", "B", "C", "D", "E", "F", "G", "H", "I", "J", "K", "L", "M", "N", "O", "P", "Q", "R", "S", "T", "U", "V", "W", "X", "Y", "Z"}

\* the number of upper-case letters a text starts with
LeadingLetters(cmd) ==
    IF \A i \in 1..Len(cmd) : cmd[i] \in UpperCase THEN Len(cmd)
    ELSE (CHOOSE i \in 1..Len(cmd) :
              cmd[i] \notin UpperCase /\ \A j \in 1..(i - 1) : cmd[j] \in UpperCase) - 1

\* cmd is a mnemonic, then the axis index nr, then nothing or ",<params>"
IndexFollowsMnemonic(cmd, nr) ==
    LET k == LeadingLetters(cmd)
        n == Len(fmt_d(nr))
    IN /\ k >= 1
       /\ Len(cmd) >= k + n
       /\ SubSeq(cmd, k + 1, k + n) = fmt_d(nr)
       /\ (Len(cmd) > k + n) => cmd[k + n + 1] = ","

\* C14: whatever calls came before, on this or another axis, every command
\* a call issues carries the index of the axis it was invoked on directly
\* after its mnemonic, and no call changes the index of any axis.
C14_OwnAxisIndex ==
    [][ /\ axis_nr' = axis_nr
        /\ \A i \in 1..Len(last'.built) :
               IndexFollowsMnemonic(last'.built[i], axis_nr[last'.axis]) ]_vars

====
